---- MODULE Spec2Model ----
(***************************************************************************)
(* Model of the Citi Field listings dashboard (src/app.py).                *)
(*                                                                         *)
(* The script is a Streamlit page: the data set is loaded once, and the    *)
(* whole script is re-executed top to bottom on the first page view and    *)
(* after every widget interaction.  One execution of the script is one     *)
(* action of the model.  Rows of the data frame carry their pandas index   *)
(* label (field "index"), as boolean indexing and sort_values keep it.     *)
(* Strings the code inspects character by character (the id and the ID     *)
(* filter text) are sequences of one-character strings.                    *)
(***************************************************************************)
EXTENDS Integers, Sequences, FiniteSets

\* ------------------------------------------------------------------------
\* Bounds of the model and constants of the program
\* ------------------------------------------------------------------------

\* Largest number of records in a loaded data set.
MaxLen == 2

\* Largest length of the text typed in the "Filter by ID" box.
MaxPatLen == 1

\* Upper end of the price slider, app.py line 48.
SliderMax == 1600

\* Characters the user types in the ID box: a letter, and two characters
\* that are regular-expression metacharacters.
PatChars == {"b", ".", "("}

Patterns == UNION {[1..n -> PatChars] : n \in 0..MaxPatLen}

Str(s) == [isNull |-> FALSE, str |-> s]
NullId == [isNull |-> TRUE, str |-> <<>>]

\* The listings a data set is drawn from (fields of the JSON objects, with
\* the timestamp already converted by line 17).  The first three are the
\* example of the specification; the others add an absent id, an id with a
\* literal dot, a section sorting before '112' and a price above the slider.
Listings ==
  { [id |-> Str(<<"A">>),      sid |-> "112", r |-> "5", p |-> 100,  grade |-> 3, timestamp |-> 1],
    [id |-> Str(<<"B">>),      sid |-> "112", r |-> "5", p |-> 100,  grade |-> 4, timestamp |-> 2],
    [id |-> Str(<<"C">>),      sid |-> "114", r |-> "2", p |-> 250,  grade |-> 1, timestamp |-> 1],
    [id |-> NullId,            sid |-> "101", r |-> "2", p |-> 250,  grade |-> 2, timestamp |-> 2],
    [id |-> Str(<<"B", ".">>), sid |-> "101", r |-> "5", p |-> 2000, grade |-> 5, timestamp |-> 1] }

\* Positions the user can drag a slider handle to.
PricePoints == {100, 250, 1600, 2000}

\* Python's ordering of the section and row labels that occur.
LabelOrder == <<"101", "112", "114", "2", "5">>

VARIABLES
  df,                  \* the loaded data frame (sequence of rows)
  phase,               \* "loaded", "first" (first run done), "rerun"
  status,              \* outcome of the last run of the script
  selected_section, selected_row, filter_id, min_price, max_price,
  filtered_df, summary, sorted_filtered_df, price_distribution,
  price_chart, grade_chart

vars == <<df, phase, status, selected_section, selected_row, filter_id,
          min_price, max_price, filtered_df, summary, sorted_filtered_df,
          price_distribution, price_chart, grade_chart>>

\* ------------------------------------------------------------------------
\* Helpers: sequences
\* ------------------------------------------------------------------------

Range(s) == {s[i] : i \in 1..Len(s)}

SetMin(S) == CHOOSE x \in S : \A y \in S : x <= y
SetMax(S) == CHOOSE x \in S : \A y \in S : x >= y

RECURSIVE SeqSum(_)
SeqSum(s) == IF s = <<>> THEN 0 ELSE Head(s) + SeqSum(Tail(s))

Injections(n) == {f \in [1..n -> 1..n] : \A i, j \in 1..n : f[i] = f[j] => i = j}

\* ------------------------------------------------------------------------
\* Loading (lines 8-17)
\* ------------------------------------------------------------------------

\* pd.DataFrame(data): row i of the list gets index label i (RangeIndex).
load_data(data) ==
  [i \in 1..Len(data) |->
     [index |-> i - 1, id |-> data[i].id, sid |-> data[i].sid, r |-> data[i].r,
      p |-> data[i].p, grade |-> data[i].grade, timestamp |-> data[i].timestamp]]

\* The JSON files the page can come up on: a non-empty array of listings
\* (on an empty array line 17 raises KeyError and no page is served).
DataFiles == UNION {[1..n -> Listings] : n \in 1..MaxLen}

\* ------------------------------------------------------------------------
\* Widgets (lines 35-50)
\* ------------------------------------------------------------------------

\* sorted(column.unique()) for a label column.
SortedUnique(labels) ==
  LET present(x) == x \in labels
  IN  SelectSeq(LabelOrder, present)

sections(d) == SortedUnique({d[i].sid : i \in 1..Len(d)})
rows(d) == SortedUnique({d[i].r : i \in 1..Len(d)})

\* list.index(x), 0-based, for x in the list.
ListIndex(s, x) == (CHOOSE i \in 1..Len(s) : s[i] = x /\ \A j \in 1..(i-1) : s[j] # x) - 1

\* Line 36: the options are ['All'] + sections, the default option is the
\* one at position sections.index('112') of the OPTIONS when '112' is a
\* section, and position 0 otherwise.
SectionOptions(d) == <<"All">> \o sections(d)
DefaultSectionIndex(d) ==
  IF "112" \in Range(sections(d)) THEN ListIndex(sections(d), "112") ELSE 0
DefaultSection(d) == SectionOptions(d)[DefaultSectionIndex(d) + 1]

\* Line 40.
RowOptions(d) == <<"All">> \o rows(d)
DefaultRow(d) == RowOptions(d)[1]

\* float(df['p'].min())
MinP(d) == SetMin({d[i].p : i \in 1..Len(d)})

\* Lines 46-50: st.slider(label, min_value, max_value, value) with
\* min_value = MinP, max_value = 1600, value = (MinP, 1600).  When
\* MinP <= 1600 the slider runs from MinP to 1600.  When MinP > 1600 the
\* arguments are out of order: Streamlit releases either raise
\* StreamlitAPIException or reorder the bounds to (1600, MinP); both
\* outcomes are possible.
Slider(d) ==
  IF MinP(d) <= SliderMax
  THEN {[err |-> FALSE, lo |-> MinP(d), hi |-> SliderMax]}
  ELSE {[err |-> TRUE, lo |-> 0, hi |-> 0],
        [err |-> FALSE, lo |-> SliderMax, hi |-> MinP(d)]}

\* ------------------------------------------------------------------------
\* Filtering (lines 53-64)
\* ------------------------------------------------------------------------

\* frame[mask]: the rows whose mask entry is True, in the frame's order,
\* each keeping its index label.
RECURSIVE BoolIndexFrom(_, _, _)
BoolIndexFrom(frame, mask, i) ==
  IF i > Len(frame) THEN <<>>
  ELSE (IF mask[i] THEN <<frame[i]>> ELSE <<>>) \o BoolIndexFrom(frame, mask, i + 1)

RECURSIVE Reverse(_)
Reverse(s) == IF s = <<>> THEN <<>> ELSE Append(Reverse(Tail(s)), Head(s))

BoolIndexReversed(frame, mask) == Reverse(BoolIndexFrom(frame, mask, 1))

BoolIndex(frame, mask) == BoolIndexFrom(frame, mask, 1)

\* Case folding of re.IGNORECASE / case=False.
Lower(c) ==
  CASE c = "A" -> "a"
    [] c = "B" -> "b"
    [] c = "C" -> "c"
    [] OTHER -> c

\* re.compile(pat) raises re.error for a text that is not a regular
\* expression; over PatChars that is a text with an unclosed "(".
RegexCompiles(pat) == \A i \in 1..Len(pat) : pat[i] # "("

\* One pattern character against one character of the subject: "." is the
\* wildcard, any other character of PatChars stands for itself, compared
\* without regard to case.
RegexCharMatch(pc, c) == pc = "." \/ Lower(pc) = Lower(c)

\* pattern.search(s) is not None, for a pattern that compiles.
RegexSearch(pat, s) ==
  \E k \in 1..(Len(s) + 1) :
     /\ k + Len(pat) - 1 <= Len(s)
     /\ \A i \in 1..Len(pat) : RegexCharMatch(pat[i], s[k + i - 1])

\* Series.str.contains(pat, case=False, na=False) on one cell: regex=True
\* is the default; a missing value gives na, that is False.
StrContains(id, pat) == IF id.isNull THEN FALSE ELSE RegexSearch(pat, id.str)

SectionMask(frame, sel) == [i \in 1..Len(frame) |-> frame[i].sid = sel]
RowMask(frame, sel) == [i \in 1..Len(frame) |-> frame[i].r = sel]
IdMask(frame, pat) == [i \in 1..Len(frame) |-> StrContains(frame[i].id, pat)]

PriceMaskStrictLow(frame, lo, hi) ==
  [i \in 1..Len(frame) |-> frame[i].p > lo /\ frame[i].p <= hi]

PriceMask(frame, lo, hi) ==
  [i \in 1..Len(frame) |-> frame[i].p >= lo /\ frame[i].p <= hi]

\* Line 62 raises when the ID filter is active and its text does not compile.
FilterRaises(C) == C.idSubstring # <<>> /\ ~RegexCompiles(C.idSubstring)

\* Lines 53-64, for criteria on which line 62 does not raise.
Filter(d, C) ==
  LET f0 == d
      f1 == IF C.section # "All" THEN BoolIndex(f0, SectionMask(f0, C.section)) ELSE f0
      f2 == IF C.row # "All" THEN BoolIndex(f1, RowMask(f1, C.row)) ELSE f1
      f3 == IF C.idSubstring # <<>> THEN BoolIndex(f2, IdMask(f2, C.idSubstring)) ELSE f2
  IN  BoolIndex(f3, PriceMask(f3, C.priceMin, C.priceMax))

\* ------------------------------------------------------------------------
\* Summary (lines 70-73)
\* ------------------------------------------------------------------------

\* A statistic is a number num/den or NaN (what pandas returns for mean(),
\* max() and min() of an empty column, printed as "$nan"); NotShown stands
\* for a statistic the page has not written.
Num(n, d) == [kind |-> "number", num |-> n, den |-> d]
NaN == [kind |-> "nan", num |-> 0, den |-> 1]
NotShown == [kind |-> "not shown", num |-> 0, den |-> 1]

PriceColumn(frame) == [i \in 1..Len(frame) |-> frame[i].p]

Mean(col) == IF col = <<>> THEN NaN ELSE Num(SeqSum(col), Len(col))
Max(col) == IF col = <<>> THEN NaN ELSE Num(SetMax(Range(col)), 1)
Min(col) == IF col = <<>> THEN NaN ELSE Num(SetMin(Range(col)), 1)

Summarize(frame) ==
  [count |-> Len(frame),
   mean |-> Mean(PriceColumn(frame)),
   max |-> Max(PriceColumn(frame)),
   min |-> Min(PriceColumn(frame))]

\* ------------------------------------------------------------------------
\* Sorting by time (line 83)
\* ------------------------------------------------------------------------

IsNonDecreasing(s) == \A i \in 1..(Len(s) - 1) : s[i].timestamp <= s[i + 1].timestamp

Rearrangements(frame) ==
  {[i \in 1..Len(frame) |-> frame[f[i]]] : f \in Injections(Len(frame))}

SortValuesKeepOrder(frame) == {frame}

\* frame.sort_values(by='timestamp'): kind defaults to 'quicksort', which
\* pandas documents as not stable, so rows with equal timestamps come out in
\* an order the call does not fix.  Every ascending rearrangement is a
\* possible result.
SortValues(frame) == {s \in Rearrangements(frame) : IsNonDecreasing(s)}

\* ------------------------------------------------------------------------
\* Price distribution (lines 90-92)
\* ------------------------------------------------------------------------

CountOf(frame, price) == Cardinality({i \in 1..Len(frame) : frame[i].p = price})
FirstPos(frame, price) == SetMin({i \in 1..Len(frame) : frame[i].p = price})

\* frame['p'].value_counts().reset_index(), columns renamed (lines 90-91):
\* one row per distinct price, most frequent first, prices of equal
\* frequency in order of first appearance.
ValueCounts(frame) ==
  LET prices == {frame[i].p : i \in 1..Len(frame)}
      before(q, x) == \/ CountOf(frame, q) > CountOf(frame, x)
                      \/ /\ CountOf(frame, q) = CountOf(frame, x)
                         /\ FirstPos(frame, q) < FirstPos(frame, x)
      rank(x) == 1 + Cardinality({q \in prices : before(q, x)})
  IN  [k \in 1..Cardinality(prices) |->
         LET x == CHOOSE y \in prices : rank(y) = k
         IN  [Price |-> x, Count |-> CountOf(frame, x)]]

\* dist.sort_values('Price') (line 92); the prices of dist are distinct.
SortByPrice(dist) ==
  LET rank(i) == 1 + Cardinality({j \in 1..Len(dist) : dist[j].Price < dist[i].Price
                                     \/ (dist[j].Price = dist[i].Price /\ j < i)})
  IN  [k \in 1..Len(dist) |-> dist[CHOOSE i \in 1..Len(dist) : rank(i) = k]]

PriceDistributionUnsorted(frame) == ValueCounts(frame)

PriceDistribution(frame) == SortByPrice(ValueCounts(frame))

\* ------------------------------------------------------------------------
\* Time-series charts (lines 110-128)
\* ------------------------------------------------------------------------

HasMoreThanOneRow(frame) == Len(frame) > 1

\* len(frame['timestamp'].unique()) > 1
HasMultipleDistinctTimestamps(frame) ==
  Cardinality({frame[i].timestamp : i \in 1..Len(frame)}) > 1

\* Lines 110-116 and 122-128: the line chart, or the message.
TimeChart(frame) == IF HasMultipleDistinctTimestamps(frame) THEN "chart" ELSE "message"

\* ------------------------------------------------------------------------
\* One execution of the script (lines 14-133)
\* ------------------------------------------------------------------------

Criteria(sec, row, fid, lo, hi) ==
  [section |-> sec, row |-> row, idSubstring |-> fid, priceMin |-> lo, priceMax |-> hi]

CurrentCriteria == Criteria(selected_section, selected_row, filter_id, min_price, max_price)

\* The frame the name df is bound to once the filters have been applied:
\* line 53 copies, and lines 56-64 rebind only filtered_df.
SourceSortedInPlace(d, f) == Reverse(d)

SourceAfterFilter(d, f) == d

\* Nothing below the line that raised is executed: no table, no summary,
\* no chart.
Aborted(st) ==
  /\ status' = st
  /\ filtered_df' = <<>>
  /\ summary' = [count |-> 0, mean |-> NotShown, max |-> NotShown, min |-> NotShown]
  /\ sorted_filtered_df' = <<>>
  /\ price_distribution' = <<>>
  /\ price_chart' = "none"
  /\ grade_chart' = "none"
  /\ df' = df

\* The script with the widgets returning sec, row, fid and, from the slider
\* outcome sl, the range (lo, hi).
Script(sec, row, fid, sl, lo, hi) ==
  /\ selected_section' = sec
  /\ selected_row' = row
  /\ filter_id' = fid
  /\ IF sl.err
     THEN /\ UNCHANGED <<min_price, max_price>>
          /\ Aborted("slider_error")
     ELSE /\ min_price' = lo
          /\ max_price' = hi
          /\ IF FilterRaises(Criteria(sec, row, fid, lo, hi))
             THEN Aborted("filter_error")
             ELSE LET f == Filter(df, Criteria(sec, row, fid, lo, hi))
                  IN  /\ status' = "ok"
                      /\ filtered_df' = f
                      /\ df' = SourceAfterFilter(df, f)
                      /\ summary' = Summarize(f)
                      /\ sorted_filtered_df' \in SortValues(f)
                      /\ price_distribution' = PriceDistribution(f)
                      /\ price_chart' = TimeChart(sorted_filtered_df')
                      /\ grade_chart' = TimeChart(sorted_filtered_df')

\* The slider has a position of its own once it has been drawn.
SliderDrawn == phase # "loaded" /\ status # "slider_error"

\* State after lines 14-17, before the script has drawn anything.
Init ==
  /\ df \in {load_data(data) : data \in DataFiles}
  /\ phase = "loaded"
  /\ status = "none"
  /\ selected_section = "All"
  /\ selected_row = "All"
  /\ filter_id = <<>>
  /\ min_price = 0
  /\ max_price = 0
  /\ filtered_df = <<>>
  /\ summary = [count |-> 0, mean |-> NotShown, max |-> NotShown, min |-> NotShown]
  /\ sorted_filtered_df = <<>>
  /\ price_distribution = <<>>
  /\ price_chart = "none"
  /\ grade_chart = "none"

\* First page view: every widget returns its default.
FirstRun ==
  /\ phase = "loaded"
  /\ phase' = "first"
  /\ \E sl \in Slider(df) :
       Script(DefaultSection(df), DefaultRow(df), <<>>, sl, sl.lo, sl.hi)

\* A rerun in which the slider keeps its position (or is drawn afresh).
Rerun(sec, row, fid) ==
  /\ phase # "loaded"
  /\ phase' = "rerun"
  /\ \E sl \in Slider(df) :
       IF SliderDrawn
       THEN Script(sec, row, fid, sl, min_price, max_price)
       ELSE Script(sec, row, fid, sl, sl.lo, sl.hi)

\* The user picks an option of the section select box.
SelectSection ==
  \E sec \in Range(SectionOptions(df)) : Rerun(sec, selected_row, filter_id)

\* The user picks an option of the row select box.
SelectRow ==
  \E row \in Range(RowOptions(df)) : Rerun(selected_section, row, filter_id)

\* The user types a text in the ID box.
TypeFilterId ==
  \E fid \in Patterns : Rerun(selected_section, selected_row, fid)

\* The user drags the handles of the price slider.
MovePriceSlider ==
  /\ phase # "loaded"
  /\ phase' = "rerun"
  /\ \E sl \in Slider(df) :
       \E lo, hi \in PricePoints \cup {sl.lo, sl.hi} :
          /\ ~sl.err => (sl.lo <= lo /\ lo <= hi /\ hi <= sl.hi)
          /\ Script(selected_section, selected_row, filter_id, sl, lo, hi)

Next == FirstRun \/ SelectSection \/ SelectRow \/ TypeFilterId \/ MovePriceSlider

Spec == Init /\ [][Next]_vars

\* ------------------------------------------------------------------------
\* What the specification says of the filter
\* ------------------------------------------------------------------------

\* s contains pat as a literal substring, compared without regard to case.
LiteralContains(pat, s) ==
  \E k \in 1..(Len(s) + 1) :
     /\ k + Len(pat) - 1 <= Len(s)
     /\ \A i \in 1..Len(pat) : Lower(pat[i]) = Lower(s[k + i - 1])

SectionHolds(row, C) == C.section = "All" \/ row.sid = C.section
RowHolds(row, C) == C.row = "All" \/ row.r = C.row
IdHolds(row, C) ==
  C.idSubstring = <<>> \/ (~row.id.isNull /\ LiteralContains(C.idSubstring, row.id.str))
PriceHolds(row, C) == C.priceMin <= row.p /\ row.p <= C.priceMax

Retained(C) ==
  LET keep(row) == SectionHolds(row, C) /\ RowHolds(row, C) /\ IdHolds(row, C) /\ PriceHolds(row, C)
  IN  SelectSeq(df, keep)

Ran == status = "ok"

\* C1: the filter retains a record if and only if the section, row, literal
\* case-insensitive id substring and inclusive price conditions all hold.
C1_FilterRetainsIff == Ran => filtered_df = Retained(CurrentCriteria)

\* No criterion is active: both select boxes on 'All', the ID box empty and
\* the slider on the range it offers by default.
NoCriteriaActive ==
  /\ Ran
  /\ selected_section = "All"
  /\ selected_row = "All"
  /\ filter_id = <<>>
  /\ \E sl \in Slider(df) : ~sl.err /\ min_price = sl.lo /\ max_price = sl.hi

\* C2 as stated: with no criterion active the filter returns every loaded
\* record, whatever its price.
C2_NoFilterIdentity == NoCriteriaActive => filtered_df = df

\* C2 as amended: when the smallest loaded price is at most 1600, the filter
\* with no criterion active returns exactly the records priced at most 1600,
\* in their original order.
C2_NoFilterKeepsUpToSliderMax ==
  LET atMostSliderMax(row) == row.p <= SliderMax
  IN  (NoCriteriaActive /\ MinP(df) <= SliderMax) => filtered_df = SelectSeq(df, atMostSliderMax)

\* A record above the slider's upper end was dropped, another one kept.
C2_Witness ==
  /\ NoCriteriaActive
  /\ MinP(df) <= SliderMax
  /\ filtered_df # <<>>
  /\ \E i \in 1..Len(df) : df[i].p > SliderMax

\* The explicit "no data" result the specification asks for.
NoData == [kind |-> "nodata", num |-> 0, den |-> 1]

\* C3: on an empty filtered subset the summary has count 0 and reports mean,
\* max and min as "no data", not as NaN or a number.
C3_EmptySummaryIsNoData ==
  (Ran /\ filtered_df = <<>>) =>
     /\ summary.count = 0
     /\ summary.mean = NoData
     /\ summary.max = NoData
     /\ summary.min = NoData

IsPermutationOf(s, t) == Len(s) = Len(t) /\ Range(s) = Range(t)

\* Rows with equal timestamps keep the order they have in the filtered frame
\* (index labels increase along the filtered frame).
IsStableOrder(s) ==
  \A i, j \in 1..Len(s) :
     (i < j /\ s[i].timestamp = s[j].timestamp) => s[i].index < s[j].index

\* C4 as stated: the time-sorted frame is a permutation of the filtered
\* subset with non-decreasing timestamps, and the sort is stable.
C4_SortStable ==
  Ran => /\ IsPermutationOf(sorted_filtered_df, filtered_df)
         /\ IsNonDecreasing(sorted_filtered_df)
         /\ IsStableOrder(sorted_filtered_df)

\* C4 as amended: the time-sorted frame is a permutation of the filtered
\* subset with non-decreasing timestamps (the order of records with equal
\* timestamps is not fixed).
C4_SortAscendingPermutation ==
  Ran => /\ IsPermutationOf(sorted_filtered_df, filtered_df)
         /\ IsNonDecreasing(sorted_filtered_df)

\* The filtered subset was out of time order and has been sorted.
C4_Witness ==
  /\ Ran
  /\ \E i \in 1..(Len(filtered_df) - 1) : filtered_df[i].timestamp > filtered_df[i + 1].timestamp
  /\ sorted_filtered_df # filtered_df

\* s holds rows of df only, in df's order, none twice.
IsSubsequenceOfSource(s) ==
  /\ \A i \in 1..Len(s) : s[i].index + 1 \in 1..Len(df) /\ s[i] = df[s[i].index + 1]
  /\ \A i, j \in 1..Len(s) : i < j => s[i].index < s[j].index

\* C5: the filtered subset is a subsequence of the loaded records, and
\* filtering it again with the same criteria returns it unchanged.
C5_SubsequenceAndIdempotent ==
  Ran => /\ IsSubsequenceOfSource(filtered_df)
         /\ Filter(filtered_df, CurrentCriteria) = filtered_df

\* A section filter kept some records and dropped others.
C5_Witness ==
  /\ Ran
  /\ selected_section # "All"
  /\ filtered_df # <<>>
  /\ Len(filtered_df) < Len(df)

\* C6: the price distribution has strictly increasing prices, one pair per
\* distinct price of the subset, each count the number of records at that
\* price, and counts summing to the size of the subset.
C6_PriceDistribution ==
  Ran =>
    LET dist == price_distribution
    IN  /\ \A i \in 1..(Len(dist) - 1) : dist[i].Price < dist[i + 1].Price
        /\ {dist[i].Price : i \in 1..Len(dist)} = {filtered_df[i].p : i \in 1..Len(filtered_df)}
        /\ \A i \in 1..Len(dist) : dist[i].Count = CountOf(filtered_df, dist[i].Price)
        /\ SeqSum([i \in 1..Len(dist) |-> dist[i].Count]) = Len(filtered_df)

\* Two prices are present, the dearer one first in the subset.
C6_Witness ==
  /\ Ran
  /\ Len(price_distribution) >= 2
  /\ filtered_df[1].p > filtered_df[Len(filtered_df)].p

\* C7: with the ID filter active a record without id is excluded and the
\* filter completes without error; with the ID filter inactive such a record
\* is retained exactly when the section, row and price criteria hold.
C7_NullIdRecords ==
  LET C == CurrentCriteria
      nulls == {i \in 1..Len(df) : df[i].id.isNull}
  IN  status \in {"ok", "filter_error"} =>
        /\ (filter_id # <<>> /\ nulls # {}) =>
              /\ status = "ok"
              /\ \A i \in nulls : df[i] \notin Range(filtered_df)
        /\ (filter_id = <<>>) =>
              \A i \in nulls :
                 df[i] \in Range(filtered_df) <=>
                    (SectionHolds(df[i], C) /\ RowHolds(df[i], C) /\ PriceHolds(df[i], C))

\* C8: no run of the script changes the loaded record set.
C8_SourceUnchanged == [][df' = df]_vars

\* A rerun has filtered some records out.
C8_Witness == phase = "rerun" /\ Ran /\ filtered_df # df

\* C9: each time-series chart is drawn exactly when the filtered subset has
\* at least two distinct timestamps, and the message is written otherwise.
C9_ChartsIffDistinctTimestamps ==
  Ran =>
    LET multiple == Cardinality({filtered_df[i].timestamp : i \in 1..Len(filtered_df)}) >= 2
    IN  /\ price_chart = (IF multiple THEN "chart" ELSE "message")
        /\ grade_chart = (IF multiple THEN "chart" ELSE "message")

\* Two records sharing one timestamp: the message, not the chart.
C9_Witness ==
  /\ Ran
  /\ Len(filtered_df) >= 2
  /\ price_chart = "message"
  /\ grade_chart = "message"

\* C10: on the first run the section defaults to '112' when '112' is one of
\* the sections, and to 'All' otherwise.
C10_DefaultSection ==
  phase = "first" =>
     selected_section = (IF "112" \in Range(sections(df)) THEN "112" ELSE "All")

====
